---------------------------- MODULE Spec2Model ----------------------------
(***************************************************************************)
(* Model of the generative media client (src/services/geminiService.ts).  *)
(*                                                                         *)
(* One client operation is followed from its invocation to its settled    *)
(* promise: the inputs it was called with, the parts it encodes, the      *)
(* request it submits to the remote endpoint, the reply of the endpoint   *)
(* and the value or error the operation settles with.                     *)
(*                                                                         *)
(* JavaScript values are represented as follows.                          *)
(*   - undefined / null string      : the string Undefined                *)
(*   - an optional object or array  : <<>> when absent, <<v>> when present *)
(*   - a thrown value               : [isError, message]; isError is       *)
(*                                    `error instanceof Error`            *)
(*   - a data URL                   : <<prefix, payload>>; null is <<>>    *)
(*   - a prompt string              : a sequence of characters            *)
(***************************************************************************)
EXTENDS Integers, Sequences, FiniteSets, TLC

VARIABLES
    op,        \* the operation in flight, "none" when the client is idle
    pc,        \* "idle", "encoding", "awaiting" or "settled"
    args,      \* the arguments of the operation in flight
    slots,     \* Promise.all over the reference images: one result per image
    request,   \* the requests issued to the remote endpoint by this operation
    response,  \* <<reply>> once the endpoint has resolved, else <<>>
    caught,    \* <<e>> when the catch block ran on thrown value e, else <<>>
    outcome    \* how the operation's promise settled

vars == <<op, pc, args, slots, request, response, caught, outcome>>

---------------------------------------------------------------------------
\* Bounds of the model.

\* longest prompt string, in characters
MaxPromptLen == 2
\* longest list of reference images
MaxFiles == 2
\* longest list of content parts in a reply
MaxParts == 2
\* longest list of generated images in a reply
MaxImages == 2

---------------------------------------------------------------------------
\* Values.

Undefined == "<undefined>"

Truthy(s) == s # Undefined /\ s # ""

SeqsUpTo(S, n) == UNION {[1..k -> S] : k \in 0..n}

Some(x) == <<x>>

None == <<>>

\* Prompt strings over a whitespace character and a letter.
Chars == {" ", "a"}

Prompts == SeqsUpTo(Chars, MaxPromptLen)

RECURSIVE TrimStart(_)
TrimStart(s) ==
    IF s # <<>> /\ Head(s) = " " THEN TrimStart(Tail(s)) ELSE s

RECURSIVE TrimEnd(_)
TrimEnd(s) ==
    IF s # <<>> /\ s[Len(s)] = " " THEN TrimEnd(SubSeq(s, 1, Len(s) - 1)) ELSE s

\* String.prototype.trim
Trim(s) == TrimEnd(TrimStart(s))

\* File and Blob objects: isFile is `file instanceof File`, type is the
\* object's own MIME type ("" when the browser knows none), a source that is
\* not readable makes the FileReader finish with a null result.
Sources ==
    [isFile : BOOLEAN, type : {"", "image/jpeg", "image/png"},
     bytes : {1, 2}, readable : BOOLEAN]

\* The files the user interface hands to the client.
Files ==
    { [isFile |-> TRUE, type |-> "image/jpeg", bytes |-> 1, readable |-> TRUE],
      [isFile |-> TRUE, type |-> "",           bytes |-> 2, readable |-> TRUE],
      [isFile |-> TRUE, type |-> "image/png",  bytes |-> 1, readable |-> FALSE] }

\* The mask blobs the user interface hands to editImageWithMask.
Masks ==
    { [isFile |-> FALSE, type |-> "image/png",  bytes |-> 2, readable |-> TRUE],
      [isFile |-> FALSE, type |-> "image/jpeg", bytes |-> 1, readable |-> TRUE] }

Overrides == {Undefined, "", "image/png", "image/webp"}

AspectRatios == {"1:1", "16:9"}

\* Values a remote call can reject with.
Rejections ==
    { [isError |-> TRUE,  message |-> "quota exceeded"],
      [isError |-> TRUE,  message |-> ""],
      [isError |-> FALSE, message |-> "rate limited"],
      [isError |-> FALSE, message |-> Undefined] }

\* Content parts of a reply.
ReplyParts ==
    { [inlineData |-> Some([data |-> "d1", mimeType |-> "image/jpeg"]), text |-> Undefined],
      [inlineData |-> Some([data |-> "d2", mimeType |-> "image/png"]),  text |-> Undefined],
      [inlineData |-> None, text |-> "t1"],
      [inlineData |-> None, text |-> "t2"],
      [inlineData |-> None, text |-> ""],
      [inlineData |-> Some([data |-> "d1", mimeType |-> "image/jpeg"]), text |-> "t1"],
      [inlineData |-> None, text |-> Undefined] }

\* Replies of generateContent to an image request: candidates may be missing
\* or empty, the first candidate may have no content, the content no parts.
ContentReplies ==
    { [candidates |-> None], [candidates |-> Some(<<>>)],
      [candidates |-> Some(<<[content |-> None]>>)],
      [candidates |-> Some(<<[content |-> Some([parts |-> None])]>>)] }
    \cup { [candidates |-> Some(<<[content |-> Some([parts |-> Some(ps)])]>>)] :
             ps \in SeqsUpTo(ReplyParts, MaxParts) }

\* Replies of generateContent to a JSON request, by their `text`.
JsonReplies ==
    { [text |-> t] :
        t \in {Undefined, "", "not json", "null", "{}", "{ideas:[]}",
               "{ideas:'x'}", "{ideas:['i1','i2']}"} }

\* Replies of generateImages.
ImageReplies ==
    { [generatedImages |-> None] }
    \cup { [generatedImages |-> Some(imgs)] :
             imgs \in SeqsUpTo({[imageBytes |-> "b1"], [imageBytes |-> "b2"]}, MaxImages) }

FormData ==
    [productName : {"", "soap"}, productPosition : {"", "on a table"},
     additionalInfo : {"", " "}]

---------------------------------------------------------------------------
\* Results of a try block: a returned value or a thrown value.

Return(v) == [kind |-> "return", value |-> v]

Throw(e) == [kind |-> "throw", error |-> e]

\* new Error(message), and the errors the runtime raises
Error(m) == [isError |-> TRUE, message |-> m]

TypeErrorNoContent == Error("Cannot read properties of undefined (reading 'parts')")

TypeErrorNoParts == Error("undefined is not iterable")

TypeErrorNullResult == Error("Cannot read properties of null (reading 'ideas')")

SyntaxErrorJson == Error("Unexpected token in JSON")

---------------------------------------------------------------------------
\* createBlankCanvas: "W:H" split on ':' and mapped through Number; the
\* canvas is 100*W by 100*H, cleared, and returned as the base64 payload of
\* its PNG data URL.

RatioNumbers(aspectRatio) ==
    CASE aspectRatio = "1:1"  -> <<1, 1>>
      [] aspectRatio = "16:9" -> <<16, 9>>

createBlankCanvas(aspectRatio) ==
    LET wh == RatioNumbers(aspectRatio)
    IN  <<"transparent-png", wh[1] * 100, wh[2] * 100>>

---------------------------------------------------------------------------
\* fileToGenerativePart

Base64(bytes) == <<"b64", bytes>>

\* FileReader.readAsDataURL followed by onloadend: the data URL as
\* <<header, payload>>, the comma between them left out; <<>> is a null result.
ReadAsDataURL(file) ==
    IF file.readable
    THEN Some(<<<<"data:", file.type, ";base64">>, Base64(file.bytes)>>)
    ELSE None

\* reader.result.split(',')[1], or '' when the result is not a string
EncodedData(file) ==
    LET result == ReadAsDataURL(file)
    IN  IF result # None THEN result[1][2] ELSE <<>>

\* a faulty variant of finalMimeType: the source's own type whatever the source is,
\* PNG when it has none
finalMimeTypeOwnType(file, mimeType) ==
    IF Truthy(mimeType) THEN mimeType
    ELSE IF file.type # "" THEN file.type ELSE "image/png"

\* mimeType || (file instanceof File ? file.type : 'image/png')
finalMimeType(file, mimeType) ==
    IF Truthy(mimeType) THEN mimeType
    ELSE IF file.isFile THEN file.type ELSE "image/png"

fileToGenerativePart(file, mimeType) ==
    [inlineData |-> [data |-> EncodedData(file),
                     mimeType |-> finalMimeType(file, mimeType)]]

---------------------------------------------------------------------------
\* processApiResponse

NullImage == <<>>

PngDataUrl(data) == <<"data:image/png;base64,", data>>

NoContentMessage == "No content was generated. The request may have been blocked."

\* a faulty variant of ScanParts: the first image-bearing and the first text-bearing
\* part win
RECURSIVE ScanPartsFirstWins(_, _)
ScanPartsFirstWins(parts, acc) ==
    IF parts = <<>> THEN acc
    ELSE LET part == Head(parts)
             a1 == IF part.inlineData # None /\ acc.image = NullImage
                   THEN [acc EXCEPT !.image = PngDataUrl(part.inlineData[1].data)]
                   ELSE acc
             a2 == IF Truthy(part.text) /\ a1.text = Undefined
                   THEN [a1 EXCEPT !.text = part.text]
                   ELSE a1
         IN  ScanPartsFirstWins(Tail(parts), a2)

\* the loop over response.candidates[0].content.parts
RECURSIVE ScanParts(_, _)
ScanParts(parts, acc) ==
    IF parts = <<>> THEN acc
    ELSE LET part == Head(parts)
             a1 == IF part.inlineData # None
                   THEN [acc EXCEPT !.image = PngDataUrl(part.inlineData[1].data)]
                   ELSE acc
             a2 == IF Truthy(part.text)
                   THEN [a1 EXCEPT !.text = part.text]
                   ELSE a1
         IN  ScanParts(Tail(parts), a2)

\* the fallback text when neither an image nor a text was found
WithFallback(acc) ==
    IF acc.image = NullImage /\ ~Truthy(acc.text)
    THEN [acc EXCEPT !.text = NoContentMessage]
    ELSE acc

processApiResponse(r) ==
    LET empty == [image |-> NullImage, text |-> Undefined]
    IN  IF r.candidates # None /\ Len(r.candidates[1]) > 0
        THEN LET content == r.candidates[1][1].content
             IN  IF content = None THEN Throw(TypeErrorNoContent)
                 ELSE IF content[1].parts = None THEN Throw(TypeErrorNoParts)
                 ELSE Return(WithFallback(ScanParts(content[1].parts[1], empty)))
        ELSE Return(WithFallback(empty))

---------------------------------------------------------------------------
\* The catch block every operation ends with.

DefaultMessage(o) ==
    CASE o \in {"editImage", "editImageWithMask"} ->
           "An unexpected error occurred while communicating with the AI."
      [] o \in {"getCreativeIdeas", "generatePromptIdeas"} ->
           "An unexpected error occurred while generating ideas."
      [] o = "generateImages" ->
           "An unexpected error occurred while generating images."
      [] o = "generateImageWithReference" ->
           "An unexpected error occurred while generating the image."

\* a faulty variant of CatchMessage: the message of whatever was thrown, when it has one
CatchMessageAnyThrown(e, default) ==
    IF Truthy(e.message) THEN e.message ELSE default

\* let message = default; if (error instanceof Error) message = error.message
CatchMessage(e, default) ==
    IF e.isError THEN e.message ELSE default

\* throw new Error(message)
Rethrow(o, e) == Error(CatchMessage(e, DefaultMessage(o)))

\* no encoding is awaited
NoSlots == [pending |-> {}, results |-> <<>>, order |-> <<>>]

\* the encodings of files are awaited together; order records the order in
\* which they complete
SlotsFor(files) ==
    [pending |-> 1..Len(files), results |-> [i \in 1..Len(files) |-> None],
     order |-> <<>>]

Pending == [kind |-> "pending"]

Fulfilled(v) == [kind |-> "fulfilled", value |-> v]

Rejected(e) == [kind |-> "rejected", error |-> e]

\* The promise of operation o settles with the result of its try block; the
\* encodings it awaited are gone with its locals.
Settle(o, body) ==
    /\ pc' = "settled"
    /\ slots' = NoSlots
    /\ IF body.kind = "throw"
       THEN /\ caught' = Some(body.error)
            /\ outcome' = Rejected(Rethrow(o, body.error))
       ELSE /\ caught' = None
            /\ outcome' = Fulfilled(body.value)

---------------------------------------------------------------------------
\* Requests.

TextPart(t) == [text |-> t]

ContentRequest(model, parts, config) ==
    [api |-> "generateContent", model |-> model, parts |-> parts, config |-> config]

ImagesRequest(prompt, numberOfImages, aspectRatio) ==
    [api |-> "generateImages", model |-> "imagen-4.0-generate-001", prompt |-> prompt,
     config |-> [numberOfImages |-> numberOfImages, outputMimeType |-> "image/png",
                 aspectRatio |-> aspectRatio]]

\* a faulty variant of PromptIsBlank: the prompt is tested without trimming it
PromptIsBlankNoTrim(prompt) == prompt = <<>>

\* !prompt.trim()
PromptIsBlank(prompt) == Trim(prompt) = <<>>

\* a faulty variant of PromiseAllStore: results are collected in completion order
PromiseAllStoreByCompletion(s, i, v) ==
    LET free == CHOOSE k \in 1..Len(s) :
                    s[k] = None /\ \A j \in 1..(k - 1) : s[j] # None
    IN  [s EXCEPT ![free] = Some(v)]

\* Promise.all: the result of the i-th promise is stored at index i
PromiseAllStore(s, i, v) == [s EXCEPT ![i] = Some(v)]

\* the array Promise.all resolves with
PromiseAllValues(s) == [i \in 1..Len(s) |-> s[i][1]]

\* The operation starts: nothing was issued, received or caught yet.
Begin(o, a) ==
    /\ pc = "idle"
    /\ op' = o
    /\ args' = a
    /\ response' = None

\* The try block throws e before any request is issued.
FailEarly(o, e) ==
    /\ pc' = "settled"
    /\ slots' = NoSlots
    /\ caught' = Some(e)
    /\ outcome' = Rejected(Rethrow(o, e))
    /\ UNCHANGED request

\* The operation issues req and waits for the endpoint.
Submit(req) ==
    /\ pc' = "awaiting"
    /\ request' = Append(request, req)
    /\ caught' = None
    /\ outcome' = Pending

---------------------------------------------------------------------------
\* editImage

editImage(imageFile, prompt) ==
    /\ Begin("editImage", [imageFile |-> imageFile, prompt |-> prompt])
    /\ slots' = NoSlots
    /\ LET imagePart == fileToGenerativePart(imageFile, Undefined)
           textPart == TextPart(prompt)
       IN  Submit(ContentRequest("gemini-2.5-flash-image-preview",
                                 <<imagePart, textPart>>, "IMAGE+TEXT"))

editImageResume(r) ==
    /\ pc = "awaiting" /\ op = "editImage"
    /\ response' = Some(r)
    /\ Settle(op, processApiResponse(r))
    /\ UNCHANGED <<op, args, request>>

---------------------------------------------------------------------------
\* editImageWithMask

editImageWithMask(imageFile, maskBlob, prompt) ==
    /\ Begin("editImageWithMask",
             [imageFile |-> imageFile, maskBlob |-> maskBlob, prompt |-> prompt])
    /\ slots' = NoSlots
    /\ LET imagePart == fileToGenerativePart(imageFile, Undefined)
           maskPart == fileToGenerativePart(maskBlob, "image/png")
           textPart == TextPart(prompt)
       IN  Submit(ContentRequest("gemini-2.5-flash-image-preview",
                                 <<imagePart, maskPart, textPart>>, "IMAGE+TEXT"))

editImageWithMaskResume(r) ==
    /\ pc = "awaiting" /\ op = "editImageWithMask"
    /\ response' = Some(r)
    /\ Settle(op, processApiResponse(r))
    /\ UNCHANGED <<op, args, request>>

---------------------------------------------------------------------------
\* JSON.parse of the reply texts of the model: the parsed value is
\* [isNull, ideas], ideas absent (<<>>) or <<[isArray, items]>>.

JsonParse(t) ==
    CASE t = "null" -> Return([isNull |-> TRUE, ideas |-> None])
      [] t = "{}" -> Return([isNull |-> FALSE, ideas |-> None])
      [] t = "{ideas:[]}" ->
           Return([isNull |-> FALSE, ideas |-> Some([isArray |-> TRUE, items |-> <<>>])])
      [] t = "{ideas:'x'}" ->
           Return([isNull |-> FALSE,
                   ideas |-> Some([isArray |-> FALSE, items |-> <<"x">>])])
      [] t = "{ideas:['i1','i2']}" ->
           Return([isNull |-> FALSE,
                   ideas |-> Some([isArray |-> TRUE, items |-> <<"i1", "i2">>])])
      [] OTHER -> Throw(SyntaxErrorJson)

---------------------------------------------------------------------------
\* getCreativeIdeas

CreativeIdeasInstruction == "You are a creative photo editing assistant. ..."

getCreativeIdeas(imageFile) ==
    /\ Begin("getCreativeIdeas", [imageFile |-> imageFile])
    /\ slots' = NoSlots
    /\ LET imagePart == fileToGenerativePart(imageFile, Undefined)
       IN  Submit(ContentRequest("gemini-2.5-flash",
                                 <<TextPart(CreativeIdeasInstruction), imagePart>>,
                                 "JSON{ideas:string[]}"))

\* the statements after the await; null is <<>>, result.ideas is <<ideas>>
CreativeIdeasBody(r) ==
    IF Truthy(r.text)
    THEN LET parsed == JsonParse(r.text)
         IN  IF parsed.kind = "throw" THEN parsed
             ELSE IF parsed.value.isNull THEN Throw(TypeErrorNullResult)
             ELSE Return(parsed.value.ideas)
    ELSE Return(None)

getCreativeIdeasResume(r) ==
    /\ pc = "awaiting" /\ op = "getCreativeIdeas"
    /\ response' = Some(r)
    /\ Settle(op, CreativeIdeasBody(r))
    /\ UNCHANGED <<op, args, request>>

---------------------------------------------------------------------------
\* generateImages

NoImagesError ==
    Error("The AI did not generate any images. This might be due to the safety policy.")

EmptyPromptError == Error("Prompt cannot be empty.")

generateImages(prompt, numberOfImages, aspectRatio) ==
    /\ Begin("generateImages",
             [prompt |-> prompt, numberOfImages |-> numberOfImages,
              aspectRatio |-> aspectRatio])
    /\ IF PromptIsBlank(prompt)
       THEN FailEarly("generateImages", EmptyPromptError)
       ELSE /\ slots' = NoSlots
            /\ Submit(ImagesRequest(prompt, numberOfImages, aspectRatio))

\* a faulty variant of GeneratedImageUrls: the data URLs come out in reverse order
GeneratedImageUrlsReversed(imgs) ==
    [i \in 1..Len(imgs) |-> PngDataUrl(imgs[Len(imgs) + 1 - i].imageBytes)]

\* response.generatedImages.map(img => `data:image/png;base64,${...}`)
GeneratedImageUrls(imgs) ==
    [i \in 1..Len(imgs) |-> PngDataUrl(imgs[i].imageBytes)]

GenerateImagesBody(r) ==
    IF r.generatedImages = None \/ Len(r.generatedImages[1]) = 0
    THEN Throw(NoImagesError)
    ELSE Return(GeneratedImageUrls(r.generatedImages[1]))

generateImagesResume(r) ==
    /\ pc = "awaiting" /\ op = "generateImages"
    /\ response' = Some(r)
    /\ Settle(op, GenerateImagesBody(r))
    /\ UNCHANGED <<op, args, request>>

---------------------------------------------------------------------------
\* generateImageWithReference

NoReferenceError == Error("Please provide at least one reference image.")

NoImageProducedMessage == "The AI could not generate an image from your request."

\* the instruction text built around the caller's prompt
CanvasFillPrompt(prompt) == [template |-> "fill the blank canvas", prompt |-> prompt]

generateImageWithReference(files, prompt, aspectRatio) ==
    /\ Begin("generateImageWithReference",
             [files |-> files, prompt |-> prompt, aspectRatio |-> aspectRatio])
    /\ IF Len(files) = 0
       THEN FailEarly("generateImageWithReference", NoReferenceError)
       ELSE IF PromptIsBlank(prompt)
       THEN FailEarly("generateImageWithReference", EmptyPromptError)
       ELSE /\ pc' = "encoding"
            /\ slots' = SlotsFor(files)
            /\ caught' = None
            /\ outcome' = Pending
            /\ UNCHANGED request

\* parts: [canvasPart, ...imageParts, textPart]
ReferenceParts(imageParts, prompt, aspectRatio) ==
    LET canvasPart ==
            [inlineData |-> [data |-> createBlankCanvas(aspectRatio),
                             mimeType |-> "image/png"]]
        textPart == TextPart(CanvasFillPrompt(prompt))
    IN  <<canvasPart>> \o imageParts \o <<textPart>>

generateImageWithReferenceSubmit ==
    /\ pc = "encoding" /\ op = "generateImageWithReference"
    /\ slots.pending = {}
    /\ Submit(ContentRequest("gemini-2.5-flash-image-preview",
                             ReferenceParts(PromiseAllValues(slots.results),
                                            args.prompt, args.aspectRatio),
                             "IMAGE+TEXT"))
    /\ UNCHANGED <<op, args, slots, response>>

\* the statements after the await
ReferenceBody(r) ==
    LET result == processApiResponse(r)
    IN  IF result.kind = "throw" THEN result
        ELSE IF result.value.image # NullImage
        THEN Return(<<result.value.image>>)
        ELSE Throw(Error(IF Truthy(result.value.text) THEN result.value.text
                         ELSE NoImageProducedMessage))

generateImageWithReferenceResume(r) ==
    /\ pc = "awaiting" /\ op = "generateImageWithReference"
    /\ response' = Some(r)
    /\ Settle(op, ReferenceBody(r))
    /\ UNCHANGED <<op, args, request>>

---------------------------------------------------------------------------
\* generatePromptIdeas

NothingProvidedError ==
    Error("Please provide some information or a reference image to generate ideas.")

NoValidIdeasError ==
    Error("The AI did not return valid prompt ideas. Please try again.")

\* a faulty variant of hasTextData: only the product name is looked at
hasTextDataNameOnly(formData) == Truthy(formData.productName)

\* productName || productPosition || additionalInfo
hasTextData(formData) ==
    \/ Truthy(formData.productName)
    \/ Truthy(formData.productPosition)
    \/ Truthy(formData.additionalInfo)

\* the instruction text: the image-only template or the form-driven one
PromptIdeasInstruction(formData, imageCount) ==
    IF imageCount > 0 /\ ~hasTextData(formData)
    THEN [template |-> "image-only"]
    ELSE [template |-> "form-driven", productName |-> formData.productName,
          productPosition |-> formData.productPosition,
          additionalInfo |-> formData.additionalInfo]

generatePromptIdeas(formData, referenceImages) ==
    /\ Begin("generatePromptIdeas",
             [formData |-> formData, referenceImages |-> referenceImages])
    /\ IF ~hasTextData(formData) /\ Len(referenceImages) = 0
       THEN FailEarly("generatePromptIdeas", NothingProvidedError)
       ELSE /\ pc' = "encoding"
            /\ slots' = SlotsFor(referenceImages)
            /\ caught' = None
            /\ outcome' = Pending
            /\ UNCHANGED request

generatePromptIdeasSubmit ==
    /\ pc = "encoding" /\ op = "generatePromptIdeas"
    /\ slots.pending = {}
    /\ LET textPart ==
               TextPart(PromptIdeasInstruction(args.formData, Len(args.referenceImages)))
       IN  Submit(ContentRequest("gemini-2.5-flash",
                                 <<textPart>> \o PromiseAllValues(slots.results),
                                 "JSON{ideas:string[]}"))
    /\ UNCHANGED <<op, args, slots, response>>

\* the statements after the await
PromptIdeasBody(r) ==
    IF Truthy(r.text)
    THEN LET parsed == JsonParse(r.text)
         IN  IF parsed.kind = "throw" THEN parsed
             ELSE IF parsed.value.isNull THEN Throw(TypeErrorNullResult)
             ELSE IF /\ parsed.value.ideas # None
                     /\ parsed.value.ideas[1].isArray
                     /\ Len(parsed.value.ideas[1].items) > 0
             THEN Return(parsed.value.ideas[1].items)
             ELSE Throw(NoValidIdeasError)
    ELSE Throw(NoValidIdeasError)

generatePromptIdeasResume(r) ==
    /\ pc = "awaiting" /\ op = "generatePromptIdeas"
    /\ response' = Some(r)
    /\ Settle(op, PromptIdeasBody(r))
    /\ UNCHANGED <<op, args, request>>

---------------------------------------------------------------------------
\* Steps shared by the operations.

\* the files whose encodings Promise.all awaits
AwaitedFiles ==
    IF op = "generateImageWithReference" THEN args.files ELSE args.referenceImages

\* fileToGenerativePart(file) of the i-th file resolves
FileEncoded(i) ==
    /\ pc = "encoding"
    /\ i \in slots.pending
    /\ slots' = [pending |-> slots.pending \ {i},
                 results |-> PromiseAllStore(slots.results, i,
                                 fileToGenerativePart(AwaitedFiles[i], Undefined)),
                 order |-> Append(slots.order, i)]
    /\ UNCHANGED <<op, pc, args, request, response, caught, outcome>>

\* the remote call rejects with e: the catch block runs on e
RemoteRejects(e) ==
    /\ pc = "awaiting"
    /\ pc' = "settled"
    /\ caught' = Some(e)
    /\ outcome' = Rejected(Rethrow(op, e))
    /\ slots' = NoSlots
    /\ UNCHANGED <<op, args, request, response>>

\* the caller has its answer; the client is idle again
Finish ==
    /\ pc = "settled"
    /\ op' = "none"
    /\ pc' = "idle"
    /\ args' = <<>>
    /\ slots' = NoSlots
    /\ request' = <<>>
    /\ response' = None
    /\ caught' = None
    /\ outcome' = Pending

---------------------------------------------------------------------------
\* The client, driven by the user interface and the remote service.

Init ==
    /\ op = "none"
    /\ pc = "idle"
    /\ args = <<>>
    /\ slots = NoSlots
    /\ request = <<>>
    /\ response = None
    /\ caught = None
    /\ outcome = Pending

\* The start of a call is enabled when the client is idle, the continuation
\* of a call when its remote call is outstanding.
Idle == pc = "idle"

Awaiting(o) == pc = "awaiting" /\ op = o

Next ==
    \/ Idle /\ \E f \in Files, p \in Prompts : editImage(f, p)
    \/ Awaiting("editImage") /\ \E r \in ContentReplies : editImageResume(r)
    \/ Idle /\ \E f \in Files, m \in Masks, p \in Prompts : editImageWithMask(f, m, p)
    \/ Awaiting("editImageWithMask")
           /\ \E r \in ContentReplies : editImageWithMaskResume(r)
    \/ Idle /\ \E f \in Files : getCreativeIdeas(f)
    \/ Awaiting("getCreativeIdeas") /\ \E r \in JsonReplies : getCreativeIdeasResume(r)
    \/ Idle /\ \E p \in Prompts, n \in 1..MaxImages, a \in AspectRatios :
                   generateImages(p, n, a)
    \/ Awaiting("generateImages") /\ \E r \in ImageReplies : generateImagesResume(r)
    \/ Idle /\ \E fs \in SeqsUpTo(Files, MaxFiles), p \in Prompts, a \in AspectRatios :
                   generateImageWithReference(fs, p, a)
    \/ generateImageWithReferenceSubmit
    \/ Awaiting("generateImageWithReference")
           /\ \E r \in ContentReplies : generateImageWithReferenceResume(r)
    \/ Idle /\ \E fd \in FormData, fs \in SeqsUpTo(Files, MaxFiles) :
                   generatePromptIdeas(fd, fs)
    \/ generatePromptIdeasSubmit
    \/ Awaiting("generatePromptIdeas")
           /\ \E r \in JsonReplies : generatePromptIdeasResume(r)
    \/ pc = "encoding" /\ \E i \in slots.pending : FileEncoded(i)
    \/ pc = "awaiting" /\ \E e \in Rejections : RemoteRejects(e)
    \/ Finish

Spec == Init /\ [][Next]_vars

---------------------------------------------------------------------------
\* The transport encoder on its own: fileToGenerativePart applied to any
\* File or Blob, with or without a MIME type override.

EncInit ==
    /\ op = "fileToGenerativePart"
    /\ pc = "idle"
    /\ args \in [file : Sources, mimeType : Overrides]
    /\ slots = NoSlots
    /\ request = <<>>
    /\ response = None
    /\ caught = None
    /\ outcome = Pending

EncApply ==
    /\ pc = "idle" /\ op = "fileToGenerativePart"
    /\ pc' = "settled"
    /\ outcome' = Fulfilled(fileToGenerativePart(args.file, args.mimeType))
    /\ UNCHANGED <<op, args, slots, request, response, caught>>

EncNext == EncApply

EncSpec == EncInit /\ [][EncNext]_vars

---------------------------------------------------------------------------
\* Vocabulary of the properties.

Min(S) == CHOOSE x \in S : \A y \in S : x <= y

Max(S) == CHOOSE x \in S : \A y \in S : x >= y

\* the operation in flight has settled
Settled(o) == op = o /\ pc = "settled"

\* the operation in flight has settled on a reply of the endpoint
SettledOnReply(o) == Settled(o) /\ response # None

\* the part list of the first candidate of reply r, when there is one
HasPartList(r) ==
    /\ r.candidates # None
    /\ Len(r.candidates[1]) > 0
    /\ r.candidates[1][1].content # None
    /\ r.candidates[1][1].content[1].parts # None

PartList(r) == r.candidates[1][1].content[1].parts[1]

\* the content parts of reply r; none when it has no part list
PartsOf(r) == IF HasPartList(r) THEN PartList(r) ELSE <<>>

\* the places of the parts that carry binary payload, and of those that
\* carry (non-empty) text
ImageBearing(parts) == {i \in DOMAIN parts : parts[i].inlineData # None}

TextBearing(parts) == {i \in DOMAIN parts : parts[i].text \notin {Undefined, ""}}

WhitespaceOnly(prompt) == \A i \in DOMAIN prompt : prompt[i] = " "

FallbackResult ==
    [image |-> <<>>,
     text |-> "No content was generated. The request may have been blocked."]

---------------------------------------------------------------------------
\* C1 as stated: whenever the catch block of an operation runs on a thrown
\* value, the operation rejects with an error whose message is the thrown
\* value's message when it carries one (whether or not it is an Error), and
\* the operation's default string otherwise.
C1_MessageOfAnyFailure ==
    (pc = "settled" /\ caught # None) =>
        /\ outcome.kind = "rejected"
        /\ outcome.error.message =
               IF caught[1].message \notin {Undefined, ""}
               THEN caught[1].message
               ELSE DefaultMessage(op)

\* C1 amended: whenever the catch block of an operation runs on a thrown
\* value, the operation rejects with a plain Error whose message is the
\* thrown value's message when that value is an instance of Error (even an
\* empty message), and the operation's default string when it is not
\* (even when it carries a message); an operation rejects only this way.
C1_MessageOfErrorInstances ==
    pc = "settled" =>
        /\ (outcome.kind = "rejected") = (caught # None)
        /\ caught # None =>
               /\ outcome.error.isError
               /\ outcome.error.message =
                      IF caught[1].isError THEN caught[1].message
                      ELSE DefaultMessage(op)

\* C1 witness: a remote call rejected with a value that is not an Error but
\* carries a message, and the operation settled with its default string.
C1_Witness ==
    /\ pc = "settled" /\ caught # None
    /\ ~caught[1].isError /\ caught[1].message = "rate limited"
    /\ outcome.kind = "rejected"
    /\ outcome.error.message = DefaultMessage(op)

---------------------------------------------------------------------------
\* C2 as stated: when an edit settles on a reply with a part list, the image
\* of the result is built from the first part carrying binary payload and
\* the text of the result is the text of the first part carrying text.
C2_FirstPartWins ==
    \A o \in {"editImage", "editImageWithMask"} :
        (SettledOnReply(o) /\ HasPartList(response[1])) =>
            LET parts == PartList(response[1])
                imgs == ImageBearing(parts)
                txts == TextBearing(parts)
            IN  /\ outcome.kind = "fulfilled"
                /\ imgs # {} =>
                       outcome.value.image =
                           <<"data:image/png;base64,", parts[Min(imgs)].inlineData[1].data>>
                /\ txts # {} => outcome.value.text = parts[Min(txts)].text

\* C2 amended: when an edit settles on a reply with a part list, the image
\* of the result is built from the last part carrying binary payload and
\* the text of the result is the text of the last part carrying text;
\* earlier image-bearing and text-bearing parts are overwritten.
C2_LastPartWins ==
    \A o \in {"editImage", "editImageWithMask"} :
        (SettledOnReply(o) /\ HasPartList(response[1])) =>
            LET parts == PartList(response[1])
                imgs == ImageBearing(parts)
                txts == TextBearing(parts)
            IN  /\ outcome.kind = "fulfilled"
                /\ imgs # {} =>
                       outcome.value.image =
                           <<"data:image/png;base64,", parts[Max(imgs)].inlineData[1].data>>
                /\ txts # {} => outcome.value.text = parts[Max(txts)].text

\* C2 witness: an edit settled on a reply whose first two parts carry
\* different binary payloads, with the payload of the second in the result.
C2_Witness ==
    /\ SettledOnReply("editImage") /\ HasPartList(response[1])
    /\ LET parts == PartList(response[1])
       IN  /\ Len(parts) >= 2
           /\ parts[1].inlineData # None /\ parts[2].inlineData # None
           /\ parts[1].inlineData[1].data # parts[2].inlineData[1].data
           /\ outcome.kind = "fulfilled"
           /\ outcome.value.image =
                  <<"data:image/png;base64,", parts[2].inlineData[1].data>>

---------------------------------------------------------------------------
\* C3 as stated: when an edit settles on a reply, the result is
\* {image: null, text: the text} if the reply has one text part and no
\* binary part, {image: 'data:image/png;base64,' + payload, text: null} if
\* it has one binary part and no text part, and {image: null, text: the
\* fixed no-content message} if it has neither (no candidates included);
\* the result never has both image and text null.
C3_NormalizedResult ==
    \A o \in {"editImage", "editImageWithMask"} :
        SettledOnReply(o) =>
            LET parts == PartsOf(response[1])
                imgs == ImageBearing(parts)
                txts == TextBearing(parts)
            IN  /\ outcome.kind = "fulfilled"
                /\ ~(outcome.value.image = <<>> /\ outcome.value.text = Undefined)
                /\ (imgs = {} /\ Cardinality(txts) = 1) =>
                       outcome.value =
                           [image |-> <<>>, text |-> parts[Min(txts)].text]
                /\ (Cardinality(imgs) = 1 /\ txts = {}) =>
                       outcome.value =
                           [image |-> <<"data:image/png;base64,",
                                        parts[Min(imgs)].inlineData[1].data>>,
                            text |-> Undefined]
                /\ (imgs = {} /\ txts = {}) => outcome.value = FallbackResult

---------------------------------------------------------------------------
\* C4: generateImages called with an empty or whitespace-only prompt has
\* failed with "Prompt cannot be empty." and has issued no request to the
\* remote endpoint, in every state of the call.
C4_BlankPromptNoCall ==
    (op = "generateImages" /\ WhitespaceOnly(args.prompt)) =>
        /\ request = <<>>
        /\ pc = "settled"
        /\ outcome.kind = "rejected"
        /\ outcome.error.message = "Prompt cannot be empty."

\* C4 witness: generateImages was called with a prompt of blanks.
C4_Witness ==
    /\ Settled("generateImages")
    /\ Len(args.prompt) > 0 /\ WhitespaceOnly(args.prompt)
    /\ outcome.kind = "rejected"

---------------------------------------------------------------------------
\* C5: when generateImages settles on a reply with n >= 1 generated images
\* it returns n strings, the i-th 'data:image/png;base64,' followed by the
\* bytes of the i-th image; on a reply with no images (empty or missing
\* list) it fails.
C5_OneUrlPerImage ==
    SettledOnReply("generateImages") =>
        LET imgs == IF response[1].generatedImages = None THEN <<>>
                    ELSE response[1].generatedImages[1]
        IN  IF Len(imgs) >= 1
            THEN /\ outcome.kind = "fulfilled"
                 /\ Len(outcome.value) = Len(imgs)
                 /\ \A i \in 1..Len(imgs) :
                        outcome.value[i] =
                            <<"data:image/png;base64,", imgs[i].imageBytes>>
            ELSE outcome.kind = "rejected"

\* C5 witness: generateImages returned on a reply with two different images.
C5_Witness ==
    /\ SettledOnReply("generateImages")
    /\ response[1].generatedImages # None
    /\ Len(response[1].generatedImages[1]) = 2
    /\ response[1].generatedImages[1][1] # response[1].generatedImages[1][2]
    /\ outcome.kind = "fulfilled"

---------------------------------------------------------------------------
\* C6: the one request generateImageWithReference issues holds the blank
\* canvas part first, then the encoded part of each reference image in the
\* order of the input list, then one instruction text part carrying the
\* prompt, whatever the order in which the encodings completed.
C6_CanvasImagesText ==
    (op = "generateImageWithReference" /\ request # <<>>) =>
        LET parts == request[1].parts
            n == Len(args.files)
        IN  /\ Len(request) = 1
            /\ n >= 1 /\ ~WhitespaceOnly(args.prompt)
            /\ Len(parts) = n + 2
            /\ parts[1] =
                   [inlineData |-> [data |-> createBlankCanvas(args.aspectRatio),
                                    mimeType |-> "image/png"]]
            /\ \A i \in 1..n :
                   parts[i + 1] = fileToGenerativePart(args.files[i], Undefined)
            /\ DOMAIN parts[n + 2] = {"text"}
            /\ parts[n + 2].text.prompt = args.prompt

\* C6 witness: two different reference images, the second encoded before
\* the first, and the request issued.
C6_Witness ==
    /\ op = "generateImageWithReference" /\ request # <<>>
    /\ Len(args.files) = 2
    /\ fileToGenerativePart(args.files[1], Undefined)
           # fileToGenerativePart(args.files[2], Undefined)
    /\ slots.order = <<2, 1>>

---------------------------------------------------------------------------
\* C7: generatePromptIdeas with all three form fields empty and no reference
\* image has failed without issuing a request; otherwise the instruction of
\* the request it issues is the image-only template exactly when all three
\* fields are empty (and so an image is given), and the form-driven template
\* when any field is non-empty, whatever the number of images.
C7_TemplateSelection ==
    op = "generatePromptIdeas" =>
        LET allEmpty == /\ args.formData.productName = ""
                        /\ args.formData.productPosition = ""
                        /\ args.formData.additionalInfo = ""
            n == Len(args.referenceImages)
        IN  IF allEmpty /\ n = 0
            THEN /\ request = <<>>
                 /\ pc = "settled"
                 /\ outcome.kind = "rejected"
            ELSE /\ pc # "settled" \/ request # <<>>
                 /\ request # <<>> =>
                        request[1].parts[1].text.template =
                            IF allEmpty THEN "image-only" ELSE "form-driven"

\* C7 witness: a request with the form-driven template for a form whose
\* only non-empty field is not the product name, sent with an image.
C7_Witness ==
    /\ op = "generatePromptIdeas" /\ request # <<>>
    /\ args.formData.productName = ""
    /\ args.formData.productPosition # ""
    /\ Len(args.referenceImages) >= 1
    /\ request[1].parts[1].text.template = "form-driven"

---------------------------------------------------------------------------
\* C8 as stated: the MIME type of the encoded part is the override when one
\* is given; with no override it is the source's own type when the source
\* (File or Blob) has one, and 'image/png' only when it has none.
C8_OwnTypeElsePng ==
    (op = "fileToGenerativePart" /\ pc = "settled") =>
        outcome.value.inlineData.mimeType =
            IF args.mimeType # Undefined THEN args.mimeType
            ELSE IF args.file.type # "" THEN args.file.type
            ELSE "image/png"

\* C8 amended: the MIME type of the encoded part is the override when a
\* non-empty one is given; otherwise it is the own type of the source when
\* the source is a File, even when that type is empty, and 'image/png'
\* when the source is a Blob that is not a File, whatever its own type.
C8_FileTypeElsePng ==
    (op = "fileToGenerativePart" /\ pc = "settled") =>
        outcome.value.inlineData.mimeType =
            IF args.mimeType \notin {Undefined, ""} THEN args.mimeType
            ELSE IF args.file.isFile THEN args.file.type
            ELSE "image/png"

\* C8 witness: a JPEG Blob encoded without override and labelled PNG.
C8_Witness ==
    /\ op = "fileToGenerativePart" /\ pc = "settled"
    /\ args.mimeType = Undefined
    /\ ~args.file.isFile /\ args.file.type = "image/jpeg"
    /\ outcome.value.inlineData.mimeType = "image/png"

---------------------------------------------------------------------------
\* C9 as stated: when an edit settles on a reply that carries no content (no
\* candidates, an empty candidate list, a first candidate with an empty part
\* list, or a first candidate with no content or no parts at all), it
\* returns {image: null, text: the fixed no-content message}.
C9_NoContentIsNormal ==
    \A o \in {"editImage", "editImageWithMask"} :
        (SettledOnReply(o) /\ PartsOf(response[1]) = <<>>) =>
            outcome = Fulfilled(FallbackResult)

---------------------------------------------------------------------------
\* C10 as stated: generateImageWithReference called with no reference image
\* or a blank prompt has failed without issuing a request; it returns only
\* on a reply with a binary part, and then a list of exactly one PNG data
\* URL; on a reply with no binary part it fails with the text of the reply
\* when there is one, else with the fixed no-content message.
C10_NeverWithoutImage ==
    op = "generateImageWithReference" =>
        /\ (Len(args.files) = 0 \/ WhitespaceOnly(args.prompt)) =>
               (request = <<>> /\ pc = "settled" /\ outcome.kind = "rejected")
        /\ (pc = "settled" /\ outcome.kind = "fulfilled") =>
               /\ response # None
               /\ ImageBearing(PartsOf(response[1])) # {}
               /\ Len(outcome.value) = 1
               /\ outcome.value[1][1] = "data:image/png;base64,"
        /\ (SettledOnReply(op) /\ ImageBearing(PartsOf(response[1])) = {}) =>
               LET parts == PartsOf(response[1])
                   txts == TextBearing(parts)
               IN  /\ outcome.kind = "rejected"
                   /\ IF txts # {}
                      THEN outcome.error.message \in {parts[i].text : i \in txts}
                      ELSE outcome.error.message = FallbackResult.text

===========================================================================
